---- MODULE Spec2Model ----
(***************************************************************************)
(* Backtesting / parameter-optimisation engine of the MACD trading bot:    *)
(* Backtester (src/Backtester.py), the StockContainer that owns it         *)
(* (src/StockContainer.py) and the data frame MACD_Strategy.get_data       *)
(* (src/MACDStrategy.py) hands to it.                                      *)
(*                                                                         *)
(* Numbers.  The source computes prices and money in floating point; here  *)
(* they are exact.  A price or an amount of money x is the whole number    *)
(* x * PriceUnit, PriceUnit = 10^4 * 101^EMARows: 10^4 makes the product   *)
(* of two ratios given in hundredths whole, and 101^EMARows makes the      *)
(* 100-day EMA, whose weights are 99/101 and 2/101, whole on every row of  *)
(* the data frames used.  Such a number does not fit a machine integer, so *)
(* it is a record [neg, mag]: mag holds the limbs of the absolute value in *)
(* base 10^4, least significant first, with no zero limb at the end        *)
(* (120 * 10^4 * 101^5 = 12612120601200000 is                              *)
(* [neg |-> FALSE, mag |-> <<0, 120, 1206, 2612, 1>>]).                    *)
(* A ratio r of the source is the integer 100*r (0.95 -> 95, 1.25 -> 125). *)
(* A win-rate wins/len(signals) is the pair <<wins, len(signals)>>,        *)
(* compared by cross-multiplication; the int 0 the source starts from is   *)
(* <<0, 1>>.                                                               *)
(*                                                                         *)
(* Indices.  Rows of the data frame are 1..Len(df) here and 0..len(df)-1   *)
(* in the source.  Long_Position of the first row is NaN in the source     *)
(* (diff() has nothing to subtract); NaN == 1 is false, and the row holds  *)
(* 0 here.                                                                 *)
(***************************************************************************)
EXTENDS Integers, Sequences, FiniteSets, TLC

\* ---------------------------------------------------------------- bounds
\* longest series of bars of which every combination of the closing prices
\* CloseVals is tried
MaxLen == 4
\* add_stock is not called once the outcome lists or the removal list are
\* this long
MaxOutcomes == 2
\* the add_data calls outside execute() that may mark a stock
MaxMarks == 1
\* the setters are called on the objects at the first places of a list
MaxPlaces == 2

\* ------------------------------------------------------- program constants
profit_ratios == <<125, 150, 175, 200, 225, 250, 275, 300>>
stop_ratios == <<95, 96, 97, 98, 99, 100>>

\* ewm(span=100, adjust=False)
span == 100

\* marker of a local name that has not been assigned yet
Unbound == 0

\* ------------------------------------------------------- exact arithmetic
Base == 10 ^ 4

\* the limbs of a natural number
RECURSIVE MagOf(_)
MagOf(n) == IF n = 0 THEN << >> ELSE <<n % Base>> \o MagOf(n \div Base)

RECURSIVE MagTrim(_)
MagTrim(a) ==
    IF a = << >> THEN a
    ELSE IF a[Len(a)] = 0 THEN MagTrim(SubSeq(a, 1, Len(a) - 1))
    ELSE a

Limb(a, i) == IF i <= Len(a) THEN a[i] ELSE 0

\* a + b from limb i on
RECURSIVE MagAdd(_, _, _, _)
MagAdd(a, b, i, carry) ==
    IF i > Len(a) /\ i > Len(b) THEN MagOf(carry)
    ELSE LET t == Limb(a, i) + Limb(b, i) + carry
         IN  <<t % Base>> \o MagAdd(a, b, i + 1, t \div Base)

\* a - b from limb i on, for a >= b
RECURSIVE MagSub(_, _, _, _)
MagSub(a, b, i, borrow) ==
    IF i > Len(a) THEN << >>
    ELSE LET t == a[i] - Limb(b, i) - borrow
         IN  IF t < 0 THEN <<t + Base>> \o MagSub(a, b, i + 1, 1)
             ELSE <<t>> \o MagSub(a, b, i + 1, 0)

\* -1, 0, 1 as a < b, a = b, a > b, on limbs i..1 of numbers of one length
RECURSIVE MagCompareFrom(_, _, _)
MagCompareFrom(a, b, i) ==
    IF i = 0 THEN 0
    ELSE IF a[i] < b[i] THEN -1
    ELSE IF a[i] > b[i] THEN 1
    ELSE MagCompareFrom(a, b, i - 1)

MagCompare(a, b) ==
    IF Len(a) < Len(b) THEN -1
    ELSE IF Len(a) > Len(b) THEN 1
    ELSE MagCompareFrom(a, b, Len(a))

\* a * k for one limb k, from limb i on
RECURSIVE MagScale(_, _, _, _)
MagScale(a, k, i, carry) ==
    IF i > Len(a) THEN MagOf(carry)
    ELSE LET t == a[i] * k + carry
         IN  <<t % Base>> \o MagScale(a, k, i + 1, t \div Base)

RECURSIVE MagMul(_, _)
MagMul(a, b) ==
    IF a = << >> \/ b = << >> THEN << >>
    ELSE MagTrim(MagAdd(MagScale(a, Head(b), 1, 0),
                        <<0>> \o MagMul(a, Tail(b)), 1, 0))

\* a \div d for a divisor d below Base: limbs 1..i of the quotient
RECURSIVE MagDiv(_, _, _, _)
MagDiv(a, d, i, rem) ==
    IF i = 0 THEN << >>
    ELSE LET t == rem * Base + a[i]
         IN  MagDiv(a, d, i - 1, t % d) \o <<t \div d>>

\* a number from its sign and limbs; zero is not negative
Num(neg, mag) ==
    LET m == MagTrim(mag) IN [neg |-> neg /\ m # << >>, mag |-> m]

\* the whole number n
NumOf(n) == IF n < 0 THEN Num(TRUE, MagOf(0 - n)) ELSE Num(FALSE, MagOf(n))

Zero == NumOf(0)

Neg(x) == Num(~x.neg, x.mag)

Plus(x, y) ==
    IF x.neg = y.neg THEN Num(x.neg, MagAdd(x.mag, y.mag, 1, 0))
    ELSE IF MagCompare(x.mag, y.mag) >= 0
    THEN Num(x.neg, MagSub(x.mag, y.mag, 1, 0))
    ELSE Num(y.neg, MagSub(y.mag, x.mag, 1, 0))

Minus(x, y) == Plus(x, Neg(y))

Times(x, y) == Num(x.neg # y.neg, MagMul(x.mag, y.mag))

\* x / d for a whole d in 1..Base-1 that divides x
Over(x, d) == Num(x.neg, MagDiv(x.mag, d, Len(x.mag), 0))

Less(x, y) == Minus(x, y).neg
Leq(x, y) == ~Less(y, x)

\* ------------------------------------------------------------ input domain
\* closing prices of the daily bars, in whole price units
CloseVals == {48, 149, 150}

\* every series of one to MaxLen bars over CloseVals
ShortBars == UNION { [1..n -> CloseVals] : n \in 1..MaxLen }

\* two longer series: a rally of the price between two entry signals
LongBars ==
    { <<48, 49, 100000, 2400, 48>>,
      <<100, 101, 96, 1500000, 30000, 100>> }

Bars == ShortBars \cup LongBars

\* the rows after the first of the longest series
LongestBars == CHOOSE c \in Bars : \A d \in Bars : Len(d) <= Len(c)
EMARows == Len(LongestBars) - 1

RECURSIVE NumPower(_, _)
NumPower(x, k) == IF k = 0 THEN NumOf(1) ELSE Times(x, NumPower(x, k - 1))

PriceUnit == Times(NumOf(Base), NumPower(NumOf(span + 1), EMARows))

\* a price of whole units
Price(c) == Times(NumOf(c), PriceUnit)

\* ----------------------------------------------- MACD_Strategy.get_data()
\* df['Close'].ewm(span=100, adjust=False).mean(): the first value is the
\* first close, then y[t] = (1 - alpha) * y[t-1] + alpha * x[t] with
\* alpha = 2 / (span + 1)
RECURSIVE ewm_mean(_, _)
ewm_mean(close_prices, t) ==
    IF t = 1 THEN <<Price(close_prices[1])>>
    ELSE LET before == ewm_mean(close_prices, t - 1)
         IN  Append(before,
                    Over(Plus(Times(NumOf(span - 1), before[t - 1]),
                              Times(NumOf(2), Price(close_prices[t]))),
                         span + 1))

\* np.where((MACD < 0) & (MACD > Signal_line) & (Close > EMA), 1.0, 0.0);
\* macd_long[t] is the value of (MACD < 0) & (MACD > Signal_line) on row t,
\* which the ta library computes from a bar request of its own
Signal_Long(close_prices, ema, macd_long, t) ==
    IF macd_long[t] /\ Less(ema[t], Price(close_prices[t])) THEN 1 ELSE 0

\* the columns Close, EMA and Long_Position = Signal_Long.diff() of the
\* data frame
get_data(close_prices, macd_long) ==
    LET ema == ewm_mean(close_prices, Len(close_prices))
    IN  [t \in 1..Len(close_prices) |->
            [Close |-> Price(close_prices[t]),
             EMA |-> ema[t],
             Long_Position |->
                IF t = 1 THEN 0
                ELSE Signal_Long(close_prices, ema, macd_long, t)
                       - Signal_Long(close_prices, ema, macd_long, t - 1)]]

\* the data frames of the series of bars above
Frames ==
    UNION { { get_data(c, m) : m \in [1..Len(c) -> BOOLEAN] } : c \in Bars }

\* ------------------------------------------------------------ pure helpers
\* ratio * x for a ratio in hundredths
Ratio(ratio, x) == Over(Times(NumOf(ratio), x), 100)

get_stop_loss(ratio, EMA) == Ratio(ratio, EMA)

get_take_profit(ratio, stop_loss) == Ratio(ratio, stop_loss)

\* signals = stock_data.loc[stock_data['Long_Position'] == 1].index
SignalsOf(df) ==
    SelectSeq([i \in 1..Len(df) |-> i], LAMBDA i : df[i].Long_Position = 1)

\* the while loop of one signal: "win", "loss", or "open" when the data ends
RECURSIVE Walk(_, _, _, _)
\* a walk that wins only strictly above the target
WalkStrictTarget(df, moving_signal, stop_loss, take_profit) ==
    IF moving_signal = Len(df) + 1 THEN "open"
    ELSE IF Less(take_profit, df[moving_signal].Close) THEN "win"
    ELSE IF Leq(df[moving_signal].Close, stop_loss) THEN "loss"
    ELSE Walk(df, moving_signal + 1, stop_loss, take_profit)

Walk(df, moving_signal, stop_loss, take_profit) ==
    IF moving_signal = Len(df) + 1 THEN "open"
    ELSE IF Leq(take_profit, df[moving_signal].Close) THEN "win"
    ELSE IF Leq(df[moving_signal].Close, stop_loss) THEN "loss"
    ELSE Walk(df, moving_signal + 1, stop_loss, take_profit)

\* the body of "for signal in signals": <<current_wins, current_money>> after it
\* a simulation that books a loss for a signal left open
SimulateSignalOpenLoses(df, signal, stop, profit, wins, money) ==
    LET stop_loss == get_stop_loss(stop, df[signal].EMA)
        money_lost == Minus(df[signal].Close, stop_loss)
        take_profit == get_take_profit(profit, stop_loss)
        outcome == Walk(df, signal, stop_loss, take_profit)
    IN  CASE outcome = "win" -> <<wins + 1, Plus(money, take_profit)>>
          [] OTHER -> <<wins, Minus(money, money_lost)>>

\* a simulation that measures the loss from the EMA
SimulateSignalLossFromEMA(df, signal, stop, profit, wins, money) ==
    LET stop_loss == get_stop_loss(stop, df[signal].EMA)
        money_lost == Minus(df[signal].EMA, stop_loss)
        take_profit == get_take_profit(profit, stop_loss)
        outcome == Walk(df, signal, stop_loss, take_profit)
    IN  CASE outcome = "win" -> <<wins + 1, Plus(money, take_profit)>>
          [] outcome = "loss" -> <<wins, Minus(money, money_lost)>>
          [] OTHER -> <<wins, money>>

\* a simulation that counts a win twice
SimulateSignalDoubleWin(df, signal, stop, profit, wins, money) ==
    LET stop_loss == get_stop_loss(stop, df[signal].EMA)
        money_lost == Minus(df[signal].Close, stop_loss)
        take_profit == get_take_profit(profit, stop_loss)
        outcome == Walk(df, signal, stop_loss, take_profit)
    IN  CASE outcome = "win" -> <<wins + 2, Plus(money, take_profit)>>
          [] outcome = "loss" -> <<wins, Minus(money, money_lost)>>
          [] OTHER -> <<wins, money>>

SimulateSignal(df, signal, stop, profit, wins, money) ==
    LET stop_loss == get_stop_loss(stop, df[signal].EMA)
        money_lost == Minus(df[signal].Close, stop_loss)
        take_profit == get_take_profit(profit, stop_loss)
        outcome == Walk(df, signal, stop_loss, take_profit)
    IN  CASE outcome = "win" -> <<wins + 1, Plus(money, take_profit)>>
          [] outcome = "loss" -> <<wins, Minus(money, money_lost)>>
          [] OTHER -> <<wins, money>>

\* accuracy > greatest_accuracy on win-rates kept as <<numerator, denominator>>
RateGreater(a, b) == a[1] * b[2] > b[1] * a[2]

\* the test of line 99
ReplacesStrictMoney(accuracy, money, best_accuracy, best_money) ==
    RateGreater(accuracy, best_accuracy) \/ Less(best_money, money)

Replaces(accuracy, money, best_accuracy, best_money) ==
    RateGreater(accuracy, best_accuracy) \/ Leq(best_money, money)

\* one (stop, profit) trial: lines 72-96 run over every signal
RECURSIVE TrialFrom(_, _, _, _, _, _, _)
TrialFrom(df, signals, j, stop, profit, wins, money) ==
    IF j > Len(signals) THEN <<wins, money>>
    ELSE LET r == SimulateSignal(df, signals[j], stop, profit, wins, money)
         IN  TrialFrom(df, signals, j + 1, stop, profit, r[1], r[2])

Trial(df, stop, profit) == TrialFrom(df, SignalsOf(df), 1, stop, profit, 0, Zero)

\* lines 66-67: the running best before the first trial
InitialBest ==
    [greatest_accuracy |-> <<0, 1>>, greatest_money |-> Zero,
     best_profit_ratio |-> Unbound, best_stop_ratio |-> Unbound]

\* the inner loop (lines 71-103) for one stop ratio, from profit ratio p on
RECURSIVE ProfitLoop(_, _, _, _)
ProfitLoop(df, s, p, best) ==
    IF p > Len(profit_ratios) THEN best
    ELSE LET t == Trial(df, stop_ratios[s], profit_ratios[p])
             accuracy == <<t[1], Len(SignalsOf(df))>>
         IN  IF Replaces(accuracy, t[2], best.greatest_accuracy, best.greatest_money)
             THEN ProfitLoop(df, s, p + 1,
                             [greatest_accuracy |-> accuracy,
                              greatest_money |-> t[2],
                              best_profit_ratio |-> profit_ratios[p],
                              best_stop_ratio |-> stop_ratios[s]])
             ELSE ProfitLoop(df, s, p + 1, best)

\* the outer loop (lines 69-103), from stop ratio s on
RECURSIVE StopLoop(_, _, _)
StopLoop(df, s, best) ==
    IF s > Len(stop_ratios) THEN best
    ELSE StopLoop(df, s + 1, ProfitLoop(df, s, 1, best))

\* add_data as a whole: what it does to the Backtester.  With no signal the
\* division of line 98 raises in the first trial, before anything is stored.
AddDataOutcome(df) ==
    IF Len(SignalsOf(df)) = 0 THEN [kind |-> "raise"]
    ELSE LET best == StopLoop(df, 1, InitialBest)
         IN  IF best.greatest_accuracy[1] # 0
             THEN [kind |-> "record", best |-> best]
             ELSE [kind |-> "remove"]

\* ------------------------------------------------------------------ state
VARIABLES
    \* StockContainer.stocks: the symbols
    stocks,
    \* StockContainer.MACD_objects: one record per MACD_Strategy object
    MACD_objects,
    \* Backtester.stocks, and whether it is the very list MACD_objects names
    \* (it is from StockContainer.__init__ until make_MACD_objects binds
    \* MACD_objects to a new list); while it is, the two are equal
    backtester_stocks, shared,
    \* the Backtester's outcome lists
    optimal_profit_ratio, optimal_risk_ratio, winrates, money_made,
    remove_stocks,
    \* what get_data() returns for each symbol
    data,
    \* the exception that ended the program, or "none"
    raised,
    \* the frame of the add_data call in progress
    stock, stock_data, pc, stop_index, profit_index, signal_index,
    current_wins, current_money,
    greatest_accuracy, greatest_money, best_profit_ratio, best_stop_ratio,
    \* history: the (stop, profit) pairs whose trial has been scored, in order
    visited,
    \* history: the call that ran last, "other" for the calls no property
    \* below is about
    lastOp

backtester_vars ==
    <<optimal_profit_ratio, optimal_risk_ratio, winrates, money_made, remove_stocks>>

container_vars == <<stocks, MACD_objects, backtester_stocks, shared, data>>

frame_vars ==
    <<stock, stock_data, pc, stop_index, profit_index, signal_index,
      current_wins, current_money,
      greatest_accuracy, greatest_money, best_profit_ratio, best_stop_ratio,
      visited>>

vars == <<container_vars, backtester_vars, raised, frame_vars, lastOp>>

Symbols == {"A", "B"}

\* MACD_Strategy.__init__: ratio 1.5, stop_loss_percentage 0.95, winrate 1
NewStrategy(symbol) ==
    [symbol |-> symbol, ratio |-> 150, stop_loss_percentage |-> 95,
     winrate |-> <<1, 1>>]

\* --------------------------------------------- one add_data call, stepwise
\* Backtester([stock]) just built, add_data(stock) entered: lines 62-73 done
\* for the first pair.
InitGrid ==
    /\ stock = "A"
    /\ stock_data \in Frames
    /\ stocks = <<"A">>
    /\ MACD_objects = <<NewStrategy("A")>>
    /\ backtester_stocks = MACD_objects
    /\ shared = TRUE
    /\ data = [s \in Symbols |-> stock_data]
    /\ optimal_profit_ratio = << >>
    /\ optimal_risk_ratio = << >>
    /\ winrates = << >>
    /\ money_made = << >>
    /\ remove_stocks = << >>
    /\ raised = "none"
    /\ pc = "trial"
    /\ stop_index = 1
    /\ profit_index = 1
    /\ signal_index = 1
    /\ current_wins = 0
    /\ current_money = Zero
    /\ greatest_accuracy = <<0, 1>>
    /\ greatest_money = Zero
    /\ best_profit_ratio = Unbound
    /\ best_stop_ratio = Unbound
    /\ visited = << >>
    /\ lastOp = "add_data"

signals == SignalsOf(stock_data)

\* lines 74-96: the next signal of the current trial
SignalStep ==
    /\ pc = "trial"
    /\ signal_index <= Len(signals)
    /\ LET r == SimulateSignal(stock_data, signals[signal_index],
                               stop_ratios[stop_index], profit_ratios[profit_index],
                               current_wins, current_money)
       IN  /\ current_wins' = r[1]
           /\ current_money' = r[2]
    /\ signal_index' = signal_index + 1
    /\ UNCHANGED <<container_vars, backtester_vars, raised, lastOp, stock, stock_data, pc,
                   stop_index, profit_index, greatest_accuracy, greatest_money,
                   best_profit_ratio, best_stop_ratio, visited>>

\* a division that yields a win-rate 0/0 and lets the search go on
TrialNotANumber ==
    /\ pc = "trial"
    /\ signal_index > Len(signals)
    /\ Len(signals) = 0
    /\ greatest_accuracy' = <<current_wins, Len(signals)>>
    /\ greatest_money' = current_money
    /\ best_profit_ratio' = profit_ratios[profit_index]
    /\ best_stop_ratio' = stop_ratios[stop_index]
    /\ pc' = "select"
    /\ UNCHANGED <<container_vars, backtester_vars, raised, lastOp, stock, stock_data,
                   stop_index, profit_index, signal_index,
                   current_wins, current_money, visited>>

\* line 98 with no signal: current_wins / 0 raises ZeroDivisionError
TrialRaise ==
    /\ pc = "trial"
    /\ signal_index > Len(signals)
    /\ Len(signals) = 0
    /\ raised' = "ZeroDivisionError"
    /\ pc' = "raised"
    /\ UNCHANGED <<container_vars, backtester_vars, lastOp, stock, stock_data,
                   stop_index, profit_index, signal_index,
                   current_wins, current_money, greatest_accuracy, greatest_money,
                   best_profit_ratio, best_stop_ratio, visited>>

\* lines 98-103, then the next pair of the nested loops (lines 69-73) if
\* there is one
TrialEnd ==
    /\ pc = "trial"
    /\ signal_index > Len(signals)
    /\ Len(signals) # 0
    /\ IF Replaces(<<current_wins, Len(signals)>>, current_money,
                   greatest_accuracy, greatest_money)
       THEN /\ greatest_accuracy' = <<current_wins, Len(signals)>>
            /\ greatest_money' = current_money
            /\ best_profit_ratio' = profit_ratios[profit_index]
            /\ best_stop_ratio' = stop_ratios[stop_index]
       ELSE UNCHANGED <<greatest_accuracy, greatest_money,
                        best_profit_ratio, best_stop_ratio>>
    /\ visited' = Append(visited, <<stop_ratios[stop_index], profit_ratios[profit_index]>>)
    /\ IF profit_index < Len(profit_ratios)
       THEN /\ profit_index' = profit_index + 1
            /\ UNCHANGED <<stop_index, pc>>
       ELSE IF stop_index < Len(stop_ratios)
       THEN /\ profit_index' = 1
            /\ stop_index' = stop_index + 1
            /\ UNCHANGED pc
       ELSE /\ pc' = "select"
            /\ UNCHANGED <<stop_index, profit_index>>
    \* lines 72-73 run when a next trial starts; after the last trial the
    \* locals keep its values
    /\ IF profit_index < Len(profit_ratios) \/ stop_index < Len(stop_ratios)
       THEN /\ current_wins' = 0
            /\ current_money' = Zero
            /\ signal_index' = 1
       ELSE UNCHANGED <<current_wins, current_money, signal_index>>
    /\ UNCHANGED <<container_vars, backtester_vars, raised, lastOp, stock, stock_data>>

\* lines 104-111
Finish ==
    /\ pc = "select"
    /\ IF greatest_accuracy[1] # 0
       THEN /\ optimal_profit_ratio' = Append(optimal_profit_ratio, best_profit_ratio)
            /\ optimal_risk_ratio' = Append(optimal_risk_ratio, best_stop_ratio)
            /\ winrates' = Append(winrates, greatest_accuracy)
            /\ money_made' = Append(money_made, greatest_money)
            /\ UNCHANGED remove_stocks
       ELSE /\ remove_stocks' = Append(remove_stocks, stock)
            /\ UNCHANGED <<optimal_profit_ratio, optimal_risk_ratio, winrates, money_made>>
    /\ pc' = "done"
    /\ UNCHANGED <<container_vars, raised, lastOp, stock, stock_data,
                   stop_index, profit_index, signal_index,
                   current_wins, current_money, greatest_accuracy, greatest_money,
                   best_profit_ratio, best_stop_ratio, visited>>

NextGrid == SignalStep \/ TrialRaise \/ TrialEnd \/ Finish

SpecGrid == InitGrid /\ [][NextGrid]_vars

\* the stepwise call ends as AddDataOutcome says
GridAgrees ==
    LET o == AddDataOutcome(stock_data)
    IN  /\ pc = "raised" => o.kind = "raise"
        /\ pc = "done" /\ remove_stocks # << >> => o.kind = "remove"
        /\ pc = "done" /\ winrates # << >> =>
              /\ o.kind = "record"
              /\ o.best.greatest_accuracy = winrates[1]
              /\ o.best.greatest_money = money_made[1]
              /\ o.best.best_profit_ratio = optimal_profit_ratio[1]
              /\ o.best.best_stop_ratio = optimal_risk_ratio[1]

\* ------------------------------------- the universe: StockContainer calls
\* The bars of a symbol are one of four series: one whose signal wins, one
\* with two signals of which one wins, one whose signal never wins, and one
\* without a signal.
OneWin == get_data(<<100, 120>>, <<FALSE, TRUE>>)
OneOfTwoWins == get_data(<<100, 125, 100, 110>>, <<FALSE, TRUE, FALSE, TRUE>>)
NoWin == get_data(<<4000, 4200>>, <<FALSE, TRUE>>)
NoSignal == get_data(<<100>>, <<FALSE>>)

Profiles == {OneWin, OneOfTwoWins, NoWin, NoSignal}

\* the series the account returns for each symbol
SymbolBars ==
    [symbol \in Symbols |->
        CASE symbol = "A" -> {OneWin, NoWin}
          [] symbol = "B" -> {OneOfTwoWins, NoSignal}
          [] OTHER -> {NoWin, OneWin}]

Range(seq) == { seq[i] : i \in DOMAIN seq }

\* lists of distinct symbols
SymbolLists ==
    { l \in UNION { [1..n -> Symbols] : n \in 0..Cardinality(Symbols) } :
        \A i, j \in DOMAIN l : i # j => l[i] # l[j] }

\* list.index(x) + 1 for an x that is in the list
IndexOf(seq, x) == CHOOSE i \in DOMAIN seq : seq[i] = x /\ \A j \in 1..(i - 1) : seq[j] # x

\* list.pop(i - 1)
Pop(seq, i) == SubSeq(seq, 1, i - 1) \o SubSeq(seq, i + 1, Len(seq))

\* the Backtester's lists as one value
Lists ==
    [optimal_profit_ratio |-> optimal_profit_ratio,
     optimal_risk_ratio |-> optimal_risk_ratio,
     winrates |-> winrates,
     money_made |-> money_made,
     remove_stocks |-> remove_stocks,
     raised |-> "none"]

\* execute, lines 40-45
EmptyLists ==
    [optimal_profit_ratio |-> << >>, optimal_risk_ratio |-> << >>,
     winrates |-> << >>, money_made |-> << >>, remove_stocks |-> << >>,
     raised |-> "none"]

\* add_data on each of the data frames above, computed once; the calls
\* below take this table as search
ProfileOutcome == [df \in Profiles |-> AddDataOutcome(df)]

\* add_data, lines 104-110, on the lists b: the outcome o of the search is
\* stored or the stock marked; a stock is named by its symbol
StoreOutcome(b, symbol, o) ==
    CASE o.kind = "raise" -> [b EXCEPT !.raised = "ZeroDivisionError"]
      [] o.kind = "record" ->
            [b EXCEPT !.optimal_profit_ratio = Append(@, o.best.best_profit_ratio),
                      !.optimal_risk_ratio = Append(@, o.best.best_stop_ratio),
                      !.winrates = Append(@, o.best.greatest_accuracy),
                      !.money_made = Append(@, o.best.greatest_money)]
      [] OTHER -> [b EXCEPT !.remove_stocks = Append(@, symbol)]

\* add_data(stock) on the lists b
AddData(search, b, symbol, d) == StoreOutcome(b, symbol, search[d[symbol]])

\* execute, lines 46-47: add_data for every tracked stock from the i-th on;
\* an exception leaves the loop
RECURSIVE AddDataPass(_, _, _, _, _)
AddDataPass(search, objs, d, i, b) ==
    IF i > Len(objs) \/ b.raised # "none" THEN b
    ELSE AddDataPass(search, objs, d, i + 1, AddData(search, b, objs[i].symbol, d))

\* self.stocks.remove(remove): the first object of that stock leaves
RemoveObject(objs, symbol) ==
    IF \E i \in DOMAIN objs : objs[i].symbol = symbol
    THEN Pop(objs, CHOOSE i \in DOMAIN objs :
                      /\ objs[i].symbol = symbol
                      /\ \A j \in 1..(i - 1) : objs[j].symbol # symbol)
    ELSE objs

\* execute, lines 49-50, from the j-th mark on
RECURSIVE RemoveMarked(_, _, _)
\* a removal loop that removes nothing
RemoveMarkedNothing(objs, marks, j) == objs

RemoveMarked(objs, marks, j) ==
    IF j > Len(marks) THEN objs
    ELSE RemoveMarked(RemoveObject(objs, marks[j]), marks, j + 1)

\* execute_backtester, lines 30-31, from the j-th mark on: list.remove raises
\* ValueError for a symbol that is not in the list
RECURSIVE RemoveSymbols(_, _, _)
RemoveSymbols(syms, marks, j) ==
    IF j > Len(marks) THEN [stocks |-> syms, raised |-> "none"]
    ELSE IF marks[j] \notin Range(syms)
    THEN [stocks |-> syms, raised |-> "ValueError"]
    ELSE RemoveSymbols(Pop(syms, IndexOf(syms, marks[j])), marks, j + 1)

\* set_ratios, lines 122-128: the loop stops with IndexError at the first
\* stock that has no outcome
SetRatios(objs, b) ==
    IF Len(b.optimal_profit_ratio) = 0 THEN objs
    ELSE [i \in DOMAIN objs |->
            IF i <= Len(b.optimal_profit_ratio)
            THEN [objs[i] EXCEPT !.ratio = b.optimal_profit_ratio[i],
                                 !.stop_loss_percentage = b.optimal_risk_ratio[i],
                                 !.winrate = b.winrates[i]]
            ELSE objs[i]]

\* set_ratios indexes the outcome lists by the position of every stock
SetRatiosRaises(objs, b) ==
    Len(b.optimal_profit_ratio) # 0 /\ Len(objs) > Len(b.optimal_profit_ratio)

\* add_stock, lines 166-168: the last tracked stock gets the last outcome
SetLast(objs, b) ==
    [objs EXCEPT ![Len(objs)] =
        [@ EXCEPT !.ratio = b.optimal_profit_ratio[Len(b.optimal_profit_ratio)],
                  !.stop_loss_percentage = b.optimal_risk_ratio[Len(b.optimal_risk_ratio)],
                  !.winrate = b.winrates[Len(b.winrates)]]]

\* self.stocks[-1] or an outcome list's [-1] on an empty list
SetLastRaises(objs, b) == Len(objs) = 0 \/ Len(b.optimal_profit_ratio) = 0

StoreLists(b) ==
    /\ optimal_profit_ratio' = b.optimal_profit_ratio
    /\ optimal_risk_ratio' = b.optimal_risk_ratio
    /\ winrates' = b.winrates
    /\ money_made' = b.money_made
    /\ remove_stocks' = b.remove_stocks

\* the Backtester's stock list becomes objs; MACD_objects shows the same
\* list as long as it is shared
StoreStocks(objs) ==
    /\ backtester_stocks' = objs
    /\ MACD_objects' = IF shared THEN objs ELSE MACD_objects
    /\ UNCHANGED shared

\* StockContainer.__init__, lines 14-17: the symbol list is set, the
\* strategy objects are made, the Backtester holds their list; the first
\* execute_backtester call is still to come
Init ==
    /\ stocks \in SymbolLists
    /\ MACD_objects = [i \in DOMAIN stocks |-> NewStrategy(stocks[i])]
    /\ backtester_stocks = MACD_objects
    /\ shared = TRUE
    /\ data \in { d \in [Symbols -> Profiles] : \A symbol \in Symbols : d[symbol] \in SymbolBars[symbol] }
    /\ optimal_profit_ratio = << >>
    /\ optimal_risk_ratio = << >>
    /\ winrates = << >>
    /\ money_made = << >>
    /\ remove_stocks = << >>
    /\ raised = "none"
    /\ lastOp = "init"
    /\ stock = "none"
    /\ stock_data = << >>
    /\ pc = "idle"
    /\ stop_index = 1
    /\ profit_index = 1
    /\ signal_index = 1
    /\ current_wins = 0
    /\ current_money = Zero
    /\ greatest_accuracy = <<0, 1>>
    /\ greatest_money = Zero
    /\ best_profit_ratio = Unbound
    /\ best_stop_ratio = Unbound
    /\ visited = << >>

\* an uncaught exception ends the program (main.py catches nothing)
Running == pc = "idle" /\ raised = "none"

\* the constructor has returned
Built == Running /\ lastOp # "init"

\* Backtester.execute, lines 40-47, on the Backtester's stocks: the lists
\* after the pass
ExecutePass(search) == AddDataPass(search, backtester_stocks, data, 1, EmptyLists)

\* Backtester.execute, lines 49-50: the stocks that stay after the pass that
\* left the lists b
ExecuteKeeps(b) ==
    IF b.raised # "none" THEN backtester_stocks
    ELSE RemoveMarked(backtester_stocks, b.remove_stocks, 1)

\* StockContainer.execute_backtester, lines 28-32
ExecuteBacktester(search) ==
    /\ Running
    /\ lastOp' = "execute_backtester"
    /\ \E b \in {ExecutePass(search)} :
       \E kept \in {ExecuteKeeps(b)}, syms \in {RemoveSymbols(stocks, b.remove_stocks, 1)} :
          /\ StoreLists(b)
          /\ IF b.raised # "none"
             THEN /\ raised' = b.raised
                  /\ UNCHANGED <<stocks, MACD_objects, backtester_stocks, shared>>
             ELSE IF syms.raised # "none"
             THEN /\ raised' = syms.raised
                  /\ stocks' = syms.stocks
                  /\ StoreStocks(kept)
             ELSE /\ stocks' = syms.stocks
                  /\ StoreStocks(SetRatios(kept, b))
                  /\ raised' = IF SetRatiosRaises(kept, b) THEN "IndexError" ELSE "none"
    /\ UNCHANGED <<data, frame_vars>>

\* StockContainer.execute, lines 48-51, called every day by main.py, and
\* Backtester.execute called on its own; the MACD_object.execute() calls
\* place orders and leave this state alone
Execute(search) ==
    /\ Built
    /\ lastOp' = "execute"
    /\ \E b \in {ExecutePass(search)} :
          /\ StoreLists(b)
          /\ raised' = b.raised
          /\ StoreStocks(ExecuteKeeps(b))
    /\ UNCHANGED <<stocks, data, frame_vars>>

\* StockContainer.make_MACD_objects, lines 39-41: MACD_objects names a new
\* list of new objects; the Backtester keeps the old list
MakeMACDObjects ==
    /\ Built
    /\ lastOp' = "other"
    /\ MACD_objects' = [i \in DOMAIN stocks |-> NewStrategy(stocks[i])]
    /\ shared' = FALSE
    /\ UNCHANGED <<stocks, backtester_stocks, data, backtester_vars, raised, frame_vars>>

\* Backtester.add_data(stock), lines 62-111, called on its own for an
\* object of the stock symbol
BacktesterAddData(search, symbol) ==
    /\ Built
    /\ Len(winrates) < MaxOutcomes
    /\ Len(remove_stocks) < MaxMarks
    /\ lastOp' = "other"
    /\ \E b \in {AddData(search, Lists, symbol, data)} :
          /\ StoreLists(b)
          /\ raised' = b.raised
    /\ UNCHANGED <<container_vars, frame_vars>>

\* Backtester.set_ratios, lines 122-128, called on its own
BacktesterSetRatios ==
    /\ Built
    /\ lastOp' = "set_ratios"
    /\ StoreStocks(SetRatios(backtester_stocks, Lists))
    /\ raised' = IF SetRatiosRaises(backtester_stocks, Lists) THEN "IndexError" ELSE "none"
    /\ UNCHANGED <<stocks, data, backtester_vars, frame_vars>>

\* Backtester.add_stock(stock), lines 165-169, on the stock list objs,
\* after the add_data call of line 165 that left the lists b: the exception
\* that ends the call
AddStockRaises(objs, b) ==
    IF b.raised # "none" THEN b.raised
    ELSE IF SetLastRaises(objs, b) THEN "IndexError"
    ELSE "none"

\* ... and the stock list it leaves: the last object of objs gets the last
\* outcome
AddStockSets(objs, b) ==
    IF AddStockRaises(objs, b) = "none" THEN SetLast(objs, b) ELSE objs

\* Backtester.add_stock(stock) called on its own for an object of the stock
\* symbol that is in no list
BacktesterAddStock(search, symbol) ==
    /\ Built
    /\ Len(winrates) < MaxOutcomes
    /\ Len(remove_stocks) < MaxMarks
    /\ lastOp' = "backtester_add_stock"
    /\ \E b \in {AddData(search, Lists, symbol, data)} :
          /\ StoreLists(b)
          /\ raised' = AddStockRaises(backtester_stocks, b)
          /\ StoreStocks(AddStockSets(backtester_stocks, b))
    /\ UNCHANGED <<stocks, data, frame_vars>>

\* StockContainer.add_stock, lines 60-68: the new object is appended to
\* MACD_objects, which is the Backtester's list if that is shared, and
\* handed to Backtester.add_stock
AddStock(search, symbol) ==
    /\ Built
    /\ Len(winrates) < MaxOutcomes
    /\ Len(remove_stocks) < MaxMarks
    /\ lastOp' = "add_stock"
    /\ IF symbol \in Range(stocks)
       THEN UNCHANGED <<stocks, MACD_objects, backtester_stocks, backtester_vars, raised>>
       ELSE \E objs \in {Append(MACD_objects, NewStrategy(symbol))},
               b \in {AddData(search, Lists, symbol, data)} :
            \E tracked \in {IF shared THEN objs ELSE backtester_stocks} :
                /\ stocks' = Append(stocks, symbol)
                /\ StoreLists(b)
                /\ raised' = AddStockRaises(tracked, b)
                /\ backtester_stocks' = AddStockSets(tracked, b)
                /\ MACD_objects' = IF shared THEN AddStockSets(tracked, b) ELSE objs
    /\ UNCHANGED <<shared, data, frame_vars>>

\* StockContainer.remove_stock, lines 79-85
RemoveStock(symbol) ==
    /\ Built
    /\ lastOp' = "remove_stock"
    /\ IF symbol \in Range(stocks)
       THEN LET index == IndexOf(stocks, symbol)
            IN  /\ stocks' = Pop(stocks, index)
                /\ IF index <= Len(MACD_objects)
                   THEN /\ MACD_objects' = Pop(MACD_objects, index)
                        /\ UNCHANGED raised
                   ELSE /\ raised' = "IndexError"
                        /\ UNCHANGED MACD_objects
                /\ backtester_stocks' = IF shared THEN MACD_objects' ELSE backtester_stocks
       ELSE UNCHANGED <<stocks, MACD_objects, backtester_stocks, raised>>
    /\ UNCHANGED <<shared, data, backtester_vars, frame_vars>>

\* the Python indices tried on the outcome lists
Indices == (0 - MaxOutcomes - 1)..MaxOutcomes

\* list.pop(index) is legal for -len <= index < len
InRange(seq, index) == 0 - Len(seq) <= index /\ index < Len(seq)

\* the place, counted from 1, that the Python index names
Place(seq, index) == IF index >= 0 THEN index + 1 ELSE Len(seq) + index + 1

\* Backtester.remove_stock(index), lines 178-181: the first pop raises
\* IndexError for an index out of range
BacktesterRemoveStock(index) ==
    /\ Built
    /\ lastOp' = "backtester_remove_stock"
    /\ IF InRange(winrates, index)
       THEN /\ winrates' = Pop(winrates, Place(winrates, index))
            /\ optimal_profit_ratio' = Pop(optimal_profit_ratio, Place(optimal_profit_ratio, index))
            /\ optimal_risk_ratio' = Pop(optimal_risk_ratio, Place(optimal_risk_ratio, index))
            /\ money_made' = Pop(money_made, Place(money_made, index))
            /\ UNCHANGED raised
       ELSE /\ raised' = "IndexError"
            /\ UNCHANGED <<winrates, optimal_profit_ratio, optimal_risk_ratio, money_made>>
    /\ UNCHANGED <<container_vars, remove_stocks, frame_vars>>

\* the places, counted from 1, of the strategy objects the setters are
\* called on
Places == 1..MaxPlaces

\* the values handed to the setters
SetterRatios == {125}
SetterStopRatios == {95}
SetterWinrates == {<<1, 1>>}

\* a setter on a strategy object, the i-th of the Backtester's list or of
\* MACD_objects: its field gets the value
SetObject(ofBacktester, i, field, value) ==
    IF ofBacktester \/ shared
    THEN /\ i \in DOMAIN backtester_stocks
         /\ StoreStocks([backtester_stocks EXCEPT ![i] = [@ EXCEPT ![field] = value]])
    ELSE /\ i \in DOMAIN MACD_objects
         /\ MACD_objects' = [MACD_objects EXCEPT ![i] = [@ EXCEPT ![field] = value]]
         /\ UNCHANGED <<backtester_stocks, shared>>

\* MACD_Strategy.set_profit_ratio, line 175
set_profit_ratio(ofBacktester, i, ratio) ==
    /\ Built
    /\ lastOp' = "other"
    /\ SetObject(ofBacktester, i, "ratio", ratio)
    /\ UNCHANGED <<stocks, data, backtester_vars, raised, frame_vars>>

\* MACD_Strategy.set_stop_loss_ratio, line 188
set_stop_loss_ratio(ofBacktester, i, ratio) ==
    /\ Built
    /\ lastOp' = "other"
    /\ SetObject(ofBacktester, i, "stop_loss_percentage", ratio)
    /\ UNCHANGED <<stocks, data, backtester_vars, raised, frame_vars>>

\* MACD_Strategy.set_winrate, line 201
set_winrate(ofBacktester, i, winrate) ==
    /\ Built
    /\ lastOp' = "other"
    /\ SetObject(ofBacktester, i, "winrate", winrate)
    /\ UNCHANGED <<stocks, data, backtester_vars, raised, frame_vars>>

\* get_data, line 133: the account returns other bars for the stock symbol
\* from now on
NewBars(symbol, df) ==
    /\ Built
    /\ df \in SymbolBars[symbol]
    /\ df # data[symbol]
    /\ lastOp' = "other"
    /\ data' = [data EXCEPT ![symbol] = df]
    /\ UNCHANGED <<stocks, MACD_objects, backtester_stocks, shared, backtester_vars,
                   raised, frame_vars>>

Next ==
    \E search \in {ProfileOutcome} :
        \/ ExecuteBacktester(search)
        \/ Execute(search)
        \/ MakeMACDObjects
        \/ BacktesterSetRatios
        \/ \E symbol \in Symbols : AddStock(search, symbol)
        \/ \E symbol \in Symbols : RemoveStock(symbol)
        \/ \E symbol \in Symbols : BacktesterAddData(search, symbol)
        \/ \E symbol \in Symbols : BacktesterAddStock(search, symbol)
        \/ \E index \in Indices : BacktesterRemoveStock(index)
        \/ \E ofBacktester \in BOOLEAN, i \in Places, ratio \in SetterRatios :
              set_profit_ratio(ofBacktester, i, ratio)
        \/ \E ofBacktester \in BOOLEAN, i \in Places, ratio \in SetterStopRatios :
              set_stop_loss_ratio(ofBacktester, i, ratio)
        \/ \E ofBacktester \in BOOLEAN, i \in Places, winrate \in SetterWinrates :
              set_winrate(ofBacktester, i, winrate)
        \/ \E symbol \in Symbols, df \in Profiles : NewBars(symbol, df)

Spec == Init /\ [][Next]_vars

\* ------------------------------------------------ the grid search: claims
\* the signal the next SignalStep simulates, and its levels under the pair
\* of the trial in progress
AtSignal == pc = "trial" /\ signal_index <= Len(signals)
ThisSignal == signals[signal_index]
StopLevel(s) == Ratio(stop_ratios[stop_index], stock_data[s].EMA)
TargetLevel(s) == Ratio(profit_ratios[profit_index], StopLevel(s))

\* the signal the last SignalStep simulated
AfterSignal == pc = "trial" /\ signal_index > 1
LastSignal == signals[signal_index - 1]

\* every row from s to the end closes strictly between the two levels
StaysOpen(s) ==
    \A t \in s..Len(stock_data) :
        /\ Less(StopLevel(s), stock_data[t].Close)
        /\ Less(stock_data[t].Close, TargetLevel(s))

\* rows of the data frame that are entry signals
SignalRows == { i \in 1..Len(stock_data) : stock_data[i].Long_Position = 1 }

\* the grid in traversal order: stop ratios outside, profit ratios inside
GridSize == Len(stop_ratios) * Len(profit_ratios)
CrossProduct ==
    [q \in 1..GridSize |->
        <<stop_ratios[((q - 1) \div Len(profit_ratios)) + 1],
          profit_ratios[((q - 1) % Len(profit_ratios)) + 1]>>]

AnyPairWins ==
    \E s \in 1..Len(stop_ratios), p \in 1..Len(profit_ratios) :
        Trial(stock_data, stop_ratios[s], profit_ratios[p])[1] > 0

\* C2 (as claimed): with at least one signal, the instrument is marked for
\* removal exactly when no pair of the grid wins, an outcome is recorded
\* whenever some pair wins, and the selected best has a win whenever some
\* pair has one.
C2_RemovedIffNoPairWins ==
    (pc = "done" /\ Len(signals) >= 1) =>
        /\ (remove_stocks # << >>) <=> ~AnyPairWins
        /\ AnyPairWins => (Len(winrates) = 1 /\ greatest_accuracy[1] > 0)

\* C3: the trials run over the cross product in order, each pair once,
\* from the running best (0, 0); a trial replaces the running best exactly
\* when its win-rate is greater or its money is at least the best money;
\* and what is recorded is the running best left by the last such trial.
C3_Traversal ==
    /\ Len(visited) <= GridSize
    /\ visited = SubSeq(CrossProduct, 1, Len(visited))
    /\ pc \in {"select", "done"} => Len(visited) = GridSize
    /\ pc = "trial" =>
          <<stop_ratios[stop_index], profit_ratios[profit_index]>>
              = CrossProduct[Len(visited) + 1]
    /\ visited = << >> =>
          /\ greatest_accuracy = <<0, 1>>
          /\ greatest_money = Zero
    /\ (pc = "done" /\ winrates # << >>) =>
          /\ optimal_risk_ratio = <<best_stop_ratio>>
          /\ optimal_profit_ratio = <<best_profit_ratio>>
          /\ winrates = <<greatest_accuracy>>
          /\ money_made = <<greatest_money>>

C3_ReplaceStep ==
    (pc = "trial" /\ visited' # visited) =>
        LET n == Cardinality(SignalRows)
            better ==
                \/ current_wins * greatest_accuracy[2] > greatest_accuracy[1] * n
                \/ Leq(greatest_money, current_money)
        IN  IF better
            THEN /\ greatest_accuracy' = <<current_wins, n>>
                 /\ greatest_money' = current_money
                 /\ best_stop_ratio' = stop_ratios[stop_index]
                 /\ best_profit_ratio' = profit_ratios[profit_index]
            ELSE UNCHANGED <<greatest_accuracy, greatest_money,
                             best_stop_ratio, best_profit_ratio>>

C3_GridSearchRule == []C3_Traversal /\ [][C3_ReplaceStep]_vars

\* C3 witness: a search that ended with an outcome taken from a pair that is
\* neither the first nor the last of the grid
C3_Witness ==
    /\ pc = "done"
    /\ winrates # << >>
    /\ Len(visited) = GridSize
    /\ <<best_stop_ratio, best_profit_ratio>> # CrossProduct[1]
    /\ <<best_stop_ratio, best_profit_ratio>> # CrossProduct[GridSize]

\* C7: a signal whose close stays strictly between the stop level and the
\* target level to the end of the data adds nothing to the wins and nothing
\* to the money of its trial, and the win-rate of the trial still divides by
\* the number of all signals.
C7_OpenStep ==
    /\ (AtSignal /\ StaysOpen(ThisSignal)) =>
          /\ current_wins' = current_wins
          /\ current_money' = current_money
    /\ (pc = "trial" /\ visited' # visited /\ greatest_accuracy' # greatest_accuracy) =>
          /\ greatest_accuracy'[2] = Cardinality(SignalRows)
          /\ greatest_accuracy'[1] = current_wins

C7_OpenSignalCounts == [][C7_OpenStep]_vars

\* C7 witness: both signals of the frame are simulated, one has won and the
\* other stayed open under the pair of the trial, so the win-rate about to
\* be computed is 1/2
C7_Witness ==
    /\ pc = "trial"
    /\ Len(signals) = 2
    /\ signal_index > Len(signals)
    /\ current_wins = 1
    /\ \E s \in SignalRows : StaysOpen(s)

\* C8 (as claimed): a signal whose next row closes below the stop level is a
\* loss: no win, and the money falls by close[s] - stopLevel.
C8_NextBelowStopStep ==
    (/\ AtSignal
     /\ ThisSignal < Len(stock_data)
     /\ Less(stock_data[ThisSignal + 1].Close, StopLevel(ThisSignal))) =>
        /\ current_wins' = current_wins
        /\ current_money' =
              Minus(current_money,
                    Minus(stock_data[ThisSignal].Close, StopLevel(ThisSignal)))

C8_NextBelowStopLoses == [][C8_NextBelowStopStep]_vars

\* C8 (amended): a signal that closes below the target level on its own row
\* and whose next row closes below the stop level is a loss: no win, and the
\* money falls by close[s] - stopLevel.
C8_AmendedStep ==
    (/\ AtSignal
     /\ ThisSignal < Len(stock_data)
     /\ Less(stock_data[ThisSignal].Close, TargetLevel(ThisSignal))
     /\ Less(stock_data[ThisSignal + 1].Close, StopLevel(ThisSignal))) =>
        /\ current_wins' = current_wins
        /\ current_money' =
              Minus(current_money,
                    Minus(stock_data[ThisSignal].Close, StopLevel(ThisSignal)))

C8_Amended == [][C8_AmendedStep]_vars

\* C8 witness: the signal just simulated closed below its target and the row
\* after it below its stop level, and the trial's money is negative
C8_Witness ==
    /\ AfterSignal
    /\ LastSignal < Len(stock_data)
    /\ Less(stock_data[LastSignal].Close, TargetLevel(LastSignal))
    /\ Less(stock_data[LastSignal + 1].Close, StopLevel(LastSignal))
    /\ current_wins = 0
    /\ current_money.neg

\* C9: a signal whose next row closes at or above the target level is a
\* win: one more win, and the money grows by the target level.
C9_NextAtTargetStep ==
    (/\ AtSignal
     /\ ThisSignal < Len(stock_data)
     /\ Leq(TargetLevel(ThisSignal), stock_data[ThisSignal + 1].Close)) =>
        /\ current_wins' = current_wins + 1
        /\ current_money' = Plus(current_money, TargetLevel(ThisSignal))

C9_NextAtTargetWins == [][C9_NextAtTargetStep]_vars

\* C9 witness: the signal just simulated closed below its target, the row
\* after it closed exactly at the target, and the trial has a win
C9_Witness ==
    /\ AfterSignal
    /\ LastSignal < Len(stock_data)
    /\ Less(stock_data[LastSignal].Close, TargetLevel(LastSignal))
    /\ stock_data[LastSignal + 1].Close = TargetLevel(LastSignal)
    /\ current_wins >= 1

\* C10 (as claimed): an instrument whose selected money is negative is put
\* on the removal list, so no recorded money is negative.
C10_NoNegativeMoney ==
    /\ \A i \in DOMAIN money_made : ~money_made[i].neg
    /\ (pc = "done" /\ Len(signals) >= 1 /\ greatest_money.neg) =>
          remove_stocks # << >>

\* --------------------------------------------------- the universe: claims
\* what the grid search of a symbol's own bars yields
Own(symbol) == ProfileOutcome[data[symbol]]

SymbolsOf(objs) == [i \in DOMAIN objs |-> objs[i].symbol]

Viable(symbol) == Own(symbol).kind = "record"

\* the four outcome lists have the length n
ListsHaveLen(n) ==
    /\ Len(optimal_profit_ratio) = n
    /\ Len(optimal_risk_ratio) = n
    /\ Len(winrates) = n
    /\ Len(money_made) = n

\* outcome i is the outcome of the search of the i-th tracked stock
OutcomesBelong ==
    \A i \in DOMAIN backtester_stocks :
        i \in DOMAIN winrates =>
            /\ Viable(backtester_stocks[i].symbol)
            /\ optimal_profit_ratio[i] = Own(backtester_stocks[i].symbol).best.best_profit_ratio
            /\ optimal_risk_ratio[i] = Own(backtester_stocks[i].symbol).best.best_stop_ratio
            /\ winrates[i] = Own(backtester_stocks[i].symbol).best.greatest_accuracy
            /\ money_made[i] = Own(backtester_stocks[i].symbol).best.greatest_money

\* every tracked stock carries the ratios and the win-rate of its own search
ParametersOwn ==
    \A i \in DOMAIN backtester_stocks :
        /\ Viable(backtester_stocks[i].symbol)
        /\ backtester_stocks[i].ratio
              = Own(backtester_stocks[i].symbol).best.best_profit_ratio
        /\ backtester_stocks[i].stop_loss_percentage
              = Own(backtester_stocks[i].symbol).best.best_stop_ratio
        /\ backtester_stocks[i].winrate
              = Own(backtester_stocks[i].symbol).best.greatest_accuracy

\* the tracked stocks and the outcome lists are aligned
ListsAligned ==
    /\ ListsHaveLen(Len(backtester_stocks))
    /\ OutcomesBelong

\* the add, remove and execute calls of the Backtester and the container
UniverseCalls ==
    {"execute", "execute_backtester", "add_stock", "backtester_add_stock",
     "remove_stock", "backtester_remove_stock"}

\* C1 (as claimed): an add_stock, remove_stock or execute call that returns
\* leaves the tracked stocks and the four outcome lists with one length and
\* outcome i belonging to tracked stock i, if they were so before the call.
C1_CallStep ==
    (ListsAligned /\ lastOp' \in UniverseCalls /\ raised' = "none") => ListsAligned'

C1_ListsAligned == [][C1_CallStep]_vars

\* C4: an execute() that returns leaves exactly the stocks whose search was
\* viable, in their order, with outcome i the outcome of stock i and nothing
\* of earlier runs; the set_ratios() that follows, in execute_backtester or
\* called next, gives every tracked stock the ratios and win-rate of its own
\* search.
C4_AfterExecute ==
    (lastOp \in {"execute", "execute_backtester"} /\ raised # "ZeroDivisionError") =>
        /\ ListsAligned
        /\ \A i \in DOMAIN backtester_stocks : Viable(backtester_stocks[i].symbol)
        /\ (lastOp = "execute_backtester" /\ raised = "none") => ParametersOwn

C4_ExecuteStep ==
    (lastOp' \in {"execute", "execute_backtester"} /\ raised' # "ZeroDivisionError") =>
        SymbolsOf(backtester_stocks') = SelectSeq(SymbolsOf(backtester_stocks), Viable)

C4_ApplyStep ==
    (lastOp = "execute" /\ raised = "none" /\ lastOp' = "set_ratios") =>
        /\ raised' = "none"
        /\ ParametersOwn'

C4_ExecuteKeepsViable ==
    []C4_AfterExecute /\ [][C4_ExecuteStep]_vars /\ [][C4_ApplyStep]_vars

\* C4 witness: execute_backtester returned, the first stock was removed, and
\* the stock that stays, now the first, carries the ratios and the win-rate
\* of its own search, none of which is the value a new object has
C4_Witness ==
    /\ lastOp = "execute_backtester"
    /\ raised = "none"
    /\ remove_stocks = <<"A">>
    /\ stocks = <<"B">>
    /\ shared
    /\ Len(backtester_stocks) = 1
    /\ backtester_stocks[1].symbol = "B"
    /\ ListsHaveLen(1)
    /\ backtester_stocks[1].ratio = optimal_profit_ratio[1]
    /\ backtester_stocks[1].stop_loss_percentage = optimal_risk_ratio[1]
    /\ backtester_stocks[1].winrate = winrates[1]
    /\ backtester_stocks[1].ratio # NewStrategy("B").ratio
    /\ backtester_stocks[1].stop_loss_percentage # NewStrategy("B").stop_loss_percentage
    /\ backtester_stocks[1].winrate # NewStrategy("B").winrate

\* C5 (as claimed): add_stock of a stock whose search finds no viable pair
\* completes without error, tracks the stock, appends no outcome and leaves
\* the stock's ratio, stop ratio and win-rate as they were.
C5_AddStep ==
    \A symbol \in Symbols :
        (/\ lastOp' \in {"add_stock", "backtester_add_stock"}
         /\ remove_stocks' = Append(remove_stocks, symbol)
         /\ Own(symbol).kind = "remove") =>
            /\ raised' = "none"
            /\ backtester_stocks' = Append(backtester_stocks, NewStrategy(symbol))
            /\ UNCHANGED <<optimal_profit_ratio, optimal_risk_ratio, winrates, money_made>>

C5_AddNonViableSetsNothing == [][C5_AddStep]_vars

\* C6 (as claimed): in execute(), a search that fails for one tracked stock
\* does not end the run: every other tracked stock is searched and gets its
\* outcome or its removal mark.
C6_ExecuteStep ==
    (lastOp' \in {"execute", "execute_backtester"}) =>
        /\ Len(winrates') = Len(SelectSeq(SymbolsOf(backtester_stocks), Viable))
        /\ \A i \in DOMAIN backtester_stocks :
              Own(backtester_stocks[i].symbol).kind = "remove" =>
                  backtester_stocks[i].symbol \in Range(remove_stocks')

C6_FailureDoesNotAbort == [][C6_ExecuteStep]_vars

\* C11 (as claimed): add_stock of a new stock whose search is viable appends
\* exactly one outcome, the outcome of the stock's own search, to each of
\* the four lists, returns without error, and leaves the new stock tracked
\* with the profit ratio, stop ratio and win-rate of that outcome; the
\* objects that were tracked before are as they were.
C11_AddStep ==
    (/\ lastOp' \in {"add_stock", "backtester_add_stock"}
     /\ Len(winrates') = Len(winrates) + 1) =>
        \E symbol \in Symbols :
            /\ Viable(symbol)
            /\ raised' = "none"
            /\ optimal_profit_ratio'
                  = Append(optimal_profit_ratio, Own(symbol).best.best_profit_ratio)
            /\ optimal_risk_ratio'
                  = Append(optimal_risk_ratio, Own(symbol).best.best_stop_ratio)
            /\ winrates' = Append(winrates, Own(symbol).best.greatest_accuracy)
            /\ money_made' = Append(money_made, Own(symbol).best.greatest_money)
            /\ remove_stocks' = remove_stocks
            /\ backtester_stocks' =
                  Append(backtester_stocks,
                         [NewStrategy(symbol) EXCEPT
                            !.ratio = Own(symbol).best.best_profit_ratio,
                            !.stop_loss_percentage = Own(symbol).best.best_stop_ratio,
                            !.winrate = Own(symbol).best.greatest_accuracy])

C11_AddViableAppliesOwn == [][C11_AddStep]_vars

\* C12: on a data frame with no entry signal add_data raises
\* ZeroDivisionError at the first division, before a trial is scored: no
\* outcome is appended, the stock is not marked for removal, and no win-rate
\* with a zero denominator (not a number) is ever held or recorded.
C12_NoSignalState ==
    /\ greatest_accuracy[2] > 0
    /\ \A i \in DOMAIN winrates : winrates[i][2] > 0
    /\ Len(signals) = 0 =>
          /\ pc \in {"trial", "raised"}
          /\ ListsHaveLen(0)
          /\ remove_stocks = << >>
          /\ visited = << >>
          /\ greatest_accuracy = <<0, 1>>
          /\ best_profit_ratio = Unbound
          /\ best_stop_ratio = Unbound
    /\ pc = "raised" =>
          /\ raised = "ZeroDivisionError"
          /\ Len(signals) = 0
    /\ raised = "ZeroDivisionError" => pc = "raised"

C12_NoSignalStep ==
    (pc = "trial" /\ Len(signals) = 0) =>
        /\ pc' = "raised"
        /\ raised' = "ZeroDivisionError"

C12_NoSignalRaises == []C12_NoSignalState /\ [][C12_NoSignalStep]_vars

\* C12 witness: the call has raised on a frame of several rows none of
\* which is an entry signal
C12_Witness ==
    /\ pc = "raised"
    /\ raised = "ZeroDivisionError"
    /\ Len(stock_data) >= 2
    /\ SignalRows = {}
    /\ ListsHaveLen(0)
    /\ remove_stocks = << >>

\* C13: with at least one entry signal, the wins of a trial are counted once
\* per simulated signal at most, so 0 <= current_wins <= len(signals) for
\* every pair of the grid, and every win-rate held as the running best or
\* recorded as an outcome lies between 0 and 1.
C13_WinRateInUnit ==
    /\ pc = "trial" =>
          /\ 0 <= current_wins
          /\ current_wins <= signal_index - 1
          /\ signal_index - 1 <= Len(signals)
    /\ 0 <= greatest_accuracy[1]
    /\ greatest_accuracy[1] <= greatest_accuracy[2]
    /\ \A i \in DOMAIN winrates :
          /\ 0 <= winrates[i][1]
          /\ winrates[i][1] <= winrates[i][2]
    /\ (pc = "trial" /\ visited = << >> /\ signal_index = 1 /\ Len(signals) >= 1) =>
          \A s \in DOMAIN stop_ratios, p \in DOMAIN profit_ratios :
              Trial(stock_data, stop_ratios[s], profit_ratios[p])[1] \in 0..Len(signals)

\* C13 witness: a recorded win-rate strictly between 0 and 1, one win out
\* of two signals
C13_Witness ==
    /\ pc = "done"
    /\ Len(signals) = 2
    /\ winrates = << <<1, 2>> >>

\* the symbol list and the list of strategy objects are aligned
ContainerAligned ==
    /\ Len(stocks) = Len(MACD_objects)
    /\ \A i \in DOMAIN stocks : stocks[i] = MACD_objects[i].symbol

\* the calls of the container
ContainerCalls == {"execute", "execute_backtester", "add_stock", "remove_stock"}

\* C14 (as claimed): a StockContainer call that returns leaves the symbol
\* list and the list of strategy objects with one length and stocks[i] the
\* symbol of MACD_objects[i], if they were so before the call, as they are
\* after construction; so remove_stock(symbol) removes the strategy object
\* of that symbol.
C14_CallStep ==
    (ContainerAligned /\ lastOp' \in ContainerCalls /\ raised' = "none") =>
        ContainerAligned'

C14_ContainerAligned == [][C14_CallStep]_vars

====
